---- MODULE Spec2Model ----
(***************************************************************************)
(* Model of luminance-gl/src/gl33/shader/program.rs: the GL33 back end of  *)
(* luminance's shader programs (HasProgram and HasUniform for GL33).       *)
(*                                                                         *)
(* The driver is modelled by the state it keeps (the live program objects, *)
(* the current-program slot, the active-uniform reflection tables) and by  *)
(* the sequence of driver calls each operation issues.                     *)
(***************************************************************************)
EXTENDS Integers, Sequences, FiniteSets, TLC

VARIABLES live,     \* program objects created and not yet deleted
          reflect,  \* program name -> active-uniform table fixed by its link
          current,  \* the context's current-program slot (0 = no program)
          stack,    \* active update_uniforms calls, innermost last
          calls,    \* driver calls issued by the most recent step
          last      \* the most recent step: operation, inputs, result

vars == <<live, reflect, current, stack, calls, last>>

(***************************************************************************)
(* Bounds                                                                  *)
(***************************************************************************)
MaxPrograms == 2   \* program names the driver hands out
MaxDepth == 2      \* nesting depth of update_uniforms
MaxLogLen == 2     \* bytes of info-log text the driver produces

ProgramNames == 1..MaxPrograms

(***************************************************************************)
(* Option / Result values                                                  *)
(***************************************************************************)
None == <<>>
Some(x) == <<x>>

Ok(x) == [kind |-> "Ok", val |-> x]
Err(e) == [kind |-> "Err", val |-> e]
Panic == [kind |-> "panic", val |-> <<>>]

LinkFailed(log) == [error |-> "LinkFailed", log |-> log]

(***************************************************************************)
(* new_program                                                             *)
(***************************************************************************)
\* stage handles supplied by the caller
TessStages == {<<1, 2>>}
VertexStages == {3}
GeometryStages == {4}
FragmentStages == {5}

\* bytes a driver may put into an info log: 'A', and the two bytes of U+00E9
LogBytes == {65, 195, 169}

RECURSIVE SeqsUpTo(_, _)
SeqsUpTo(S, n) ==
  IF n = 0 THEN {<<>>}
  ELSE LET shorter == SeqsUpTo(S, n - 1)
       IN  shorter \cup {Append(s, x) : s \in {t \in shorter : Len(t) = n - 1}, x \in S}

InfoLogs == SeqsUpTo(LogBytes, MaxLogLen)

IsCont(b) == b >= 128 /\ b <= 191

\* String::from_utf8 succeeds exactly on well-formed UTF-8
RECURSIVE Utf8Valid(_)
Utf8Valid(s) ==
  IF s = <<>> THEN TRUE
  ELSE LET b == Head(s)
           n == Len(s)
       IN  IF b < 128 THEN Utf8Valid(Tail(s))
           ELSE IF b >= 194 /\ b <= 223
             THEN n >= 2 /\ IsCont(s[2]) /\ Utf8Valid(SubSeq(s, 3, n))
           ELSE IF b >= 224 /\ b <= 239
             THEN /\ n >= 3
                  /\ IsCont(s[2]) /\ IsCont(s[3])
                  /\ (b = 224 => s[2] >= 160)
                  /\ (b = 237 => s[2] <= 159)
                  /\ Utf8Valid(SubSeq(s, 4, n))
           ELSE IF b >= 240 /\ b <= 244
             THEN /\ n >= 4
                  /\ IsCont(s[2]) /\ IsCont(s[3]) /\ IsCont(s[4])
                  /\ (b = 240 => s[2] >= 144)
                  /\ (b = 244 => s[2] <= 143)
                  /\ Utf8Valid(SubSeq(s, 5, n))
           ELSE FALSE

\* INFO_LOG_LENGTH counts the terminating NUL; it is 0 when there is no log
InfoLogLength(text) == IF text = <<>> THEN 0 ELSE Len(text) + 1

\* GetProgramInfoLog writes at most bufSize bytes, the last of them a NUL
InfoLogBuffer(text, bufSize) ==
  IF bufSize <= 0 THEN <<>>
  ELSE LET k == IF Len(text) < bufSize - 1 THEN Len(text) ELSE bufSize - 1
       IN  Append(SubSeq(text, 1, k), 0)

AttachShader(program, stage) == [fn |-> "AttachShader", program |-> program, stage |-> stage]

\* lines 18-36: the calls up to and including the link-status query
NewProgramLink_reordered(program, tess, vertex, geometry, fragment, linked) ==
  <<[fn |-> "CreateProgram", program |-> program]>>
  \o <<AttachShader(program, vertex)>>
  \o (IF tess # None
        THEN <<AttachShader(program, tess[1][1]), AttachShader(program, tess[1][2])>>
        ELSE <<>>)
  \o (IF geometry # None THEN <<AttachShader(program, geometry[1])>> ELSE <<>>)
  \o <<AttachShader(program, fragment)>>
  \o <<[fn |-> "LinkProgram", program |-> program]>>
  \o <<[fn |-> "GetProgramiv", program |-> program, pname |-> "LINK_STATUS", out |-> linked]>>

NewProgramLink(program, tess, vertex, geometry, fragment, linked) ==
  <<[fn |-> "CreateProgram", program |-> program]>>
  \o (IF tess # None
        THEN <<AttachShader(program, tess[1][1]), AttachShader(program, tess[1][2])>>
        ELSE <<>>)
  \o <<AttachShader(program, vertex)>>
  \o (IF geometry # None THEN <<AttachShader(program, geometry[1])>> ELSE <<>>)
  \o <<AttachShader(program, fragment)>>
  \o <<[fn |-> "LinkProgram", program |-> program]>>
  \o <<[fn |-> "GetProgramiv", program |-> program, pname |-> "LINK_STATUS", out |-> linked]>>

\* lines 41-51: the failure branch
LinkFailedPath_leak(program, text) ==
  LET log_len == InfoLogLength(text)
      log == InfoLogBuffer(text, log_len)
  IN  [calls |-> <<[fn |-> "GetProgramiv", program |-> program,
                    pname |-> "INFO_LOG_LENGTH", out |-> log_len],
                   [fn |-> "GetProgramInfoLog", program |-> program,
                    bufSize |-> log_len, out |-> log]>>,
       ret |-> IF Utf8Valid(log) THEN Err(LinkFailed(log)) ELSE Panic]

LinkFailedPath(program, text) ==
  LET log_len == InfoLogLength(text)
      log == InfoLogBuffer(text, log_len)
  IN  [calls |-> <<[fn |-> "GetProgramiv", program |-> program,
                    pname |-> "INFO_LOG_LENGTH", out |-> log_len],
                   [fn |-> "GetProgramInfoLog", program |-> program,
                    bufSize |-> log_len, out |-> log],
                   [fn |-> "DeleteProgram", program |-> program]>>,
       ret |-> IF Utf8Valid(log) THEN Err(LinkFailed(log)) ELSE Panic]

\* the program objects a call sequence creates and deletes
Created(cs) == {cs[i].program : i \in {j \in DOMAIN cs : cs[j].fn = "CreateProgram"}}
Deleted(cs) == {cs[i].program : i \in {j \in DOMAIN cs : cs[j].fn = "DeleteProgram"}}

NoUniforms == <<>>

\* what the driver makes of the link: success, or failure with an info log
LinkOutcomes == {<<TRUE, <<>>>>} \cup {<<FALSE, text>> : text \in InfoLogs}

new_program ==
  \E tess \in {None} \cup {Some(t) : t \in TessStages},
     vertex \in VertexStages,
     geometry \in {None} \cup {Some(g) : g \in GeometryStages},
     fragment \in FragmentStages,
     program \in ProgramNames \ live,
     outcome \in LinkOutcomes :
    LET linked == outcome[1]
        text == outcome[2]
        link == NewProgramLink(program, tess, vertex, geometry, fragment, linked)
        fail == LinkFailedPath(program, text)
        cs == IF linked THEN link ELSE link \o fail.calls
    IN  /\ calls' = cs
        /\ live' = (live \cup Created(cs)) \ Deleted(cs)
        /\ reflect' = [p \in live' |-> IF p \in live THEN reflect[p] ELSE NoUniforms]
        /\ last' = [op |-> "new_program",
                    args |-> <<tess, vertex, geometry, fragment>>,
                    program |-> program,
                    linked |-> linked,
                    ret |-> IF linked THEN Ok(program) ELSE fail.ret]
        /\ UNCHANGED <<current, stack>>

free_program ==
  \E program \in ProgramNames :
    /\ calls' = <<[fn |-> "DeleteProgram", program |-> program]>>
    /\ live' = live \ Deleted(calls')
    /\ reflect' = [p \in live' |-> reflect[p]]
    /\ last' = [op |-> "free_program", program |-> program]
    /\ UNCHANGED <<current, stack>>

(***************************************************************************)
(* update_uniforms                                                         *)
(***************************************************************************)
\* UseProgram(0) clears the slot; a name that is not a program object is an
\* error and leaves the slot as it was
UseProgram(program) ==
  IF program = 0 \/ program \in live THEN program ELSE current

\* line 76, then control passes to the callback f
update_uniforms_enter ==
  \E program \in ProgramNames :
    /\ Len(stack) < MaxDepth
    /\ calls' = <<[fn |-> "UseProgram", program |-> program]>>
    /\ current' = UseProgram(program)
    /\ stack' = Append(stack, [program |-> program, entry |-> current])
    /\ last' = [op |-> "update_uniforms", step |-> "enter", program |-> program]
    /\ UNCHANGED <<live, reflect>>

\* f returns; line 78
update_uniforms_return ==
  /\ stack # <<>>
  /\ calls' = <<[fn |-> "UseProgram", program |-> 0]>>
  /\ current' = UseProgram(0)
  /\ stack' = SubSeq(stack, 1, Len(stack) - 1)
  /\ last' = [op |-> "update_uniforms", step |-> "return",
              program |-> stack[Len(stack)].program,
              entry |-> stack[Len(stack)].entry]
  /\ UNCHANGED <<live, reflect>>

\* f panics; the unwinding leaves update_uniforms at line 77
update_uniforms_unwind ==
  /\ stack # <<>>
  /\ calls' = <<>>
  /\ stack' = SubSeq(stack, 1, Len(stack) - 1)
  /\ last' = [op |-> "update_uniforms", step |-> "unwind",
              program |-> stack[Len(stack)].program,
              entry |-> stack[Len(stack)].entry]
  /\ UNCHANGED <<live, reflect, current>>

\* the program of the innermost update_uniforms whose callback is running
Bracket == IF stack = <<>> THEN 0 ELSE stack[Len(stack)].program

(***************************************************************************)
(* HasUniform: the update operations                                       *)
(***************************************************************************)
MaxLen == 3   \* elements of a slice that is written out in full

Locations == {-1, 0}
I32Values == {0, 7}
F32Values == {"0.0", "1.5"}

\* 32-bit and 64-bit unsigned values are kept as 16-bit limbs, lowest first
U32Values == {<<7, 0>>, <<0, 32768>>}

UsizeOf(n) == <<n % 2^16, (n \div 2^16) % 2^16, 0, 0>>

\* slice lengths beyond the signed 32-bit range: 2^31 and 2^32 + 1
HugeLens == {<<0, 32768, 0, 0>>, <<1, 0, 1, 0>>}

\* `as GLint' / `as GLsizei': the low 32 bits, read as a signed value
AsGLint(limbs) ==
  IF limbs[2] >= 2^15
    THEN (limbs[2] - 2^16) * 2^16 + limbs[1]
    ELSE limbs[2] * 2^16 + limbs[1]

\* `as i32' / `as GLint' of a bool
BoolAsI32_allbits(b) == IF b THEN -1 ELSE 0

BoolAsI32(b) == IF b THEN 1 ELSE 0

\* the values of [T; n] (T itself for n = 1, as in the source's signatures)
Array(S, n) == IF n = 1 THEN S ELSE [1..n -> S]

\* a sample of [T; n]: the constant arrays and the arrays of two alternating
\* values
Sample(S, n) ==
  IF n = 1 THEN S
  ELSE {[i \in 1..n |-> IF i % 2 = 1 THEN a ELSE b] : a \in S, b \in S}

\* a slice is its elements and its length; one whose length is huge is
\* kept as one element repeated (vec![x; len])
Slices(E) ==
  {[repeat |-> FALSE, elems |-> e, len |-> UsizeOf(Len(e))] : e \in SeqsUpTo(E, MaxLen)}
  \cup {[repeat |-> TRUE, elems |-> <<x>>, len |-> l] : x \in E, l \in HugeLens}

\* the scalars found at a pointer to elements of arity n, in memory order
RECURSIVE Flat(_, _)
Flat(elems, n) ==
  IF elems = <<>> THEN <<>>
  ELSE (IF n = 1 THEN <<Head(elems)>> ELSE Head(elems)) \o Flat(Tail(elems), n)

\* what lies at v.as_ptr(): len elements, as scalars (for a repeated element,
\* one period of them)
Memory(v, n) == [repeat |-> v.repeat, words |-> Flat(v.elems, n), len |-> v.len]

\* v.iter().map(f).collect()
Collect(f, v) == [v EXCEPT !.elems = [i \in DOMAIN v.elems |-> f[v.elems[i]]]]

\* square matrices as rows of floats: the identity and a strictly upper one
M(n) == {[i \in 1..n |-> [j \in 1..n |-> IF i = j THEN "1.0" ELSE "0.0"]],
         [i \in 1..n |-> [j \in 1..n |-> IF i < j THEN "1.5" ELSE "0.0"]]}

RowMajor(m) == Flat(m, Len(m))

\* the driver's entry points by arity
Uniformiv == <<"Uniform1iv", "Uniform2iv", "Uniform3iv", "Uniform4iv">>
Uniformuiv == <<"Uniform1uiv", "Uniform2uiv", "Uniform3uiv", "Uniform4uiv">>
Uniformfv == <<"Uniform1fv", "Uniform2fv", "Uniform3fv", "Uniform4fv">>
UniformMatrixfv == <<"", "UniformMatrix2fv", "UniformMatrix3fv", "UniformMatrix4fv">>

\* the operations by arity
Name_i32 == <<"update1_i32", "update2_i32", "update3_i32", "update4_i32">>
Name_u32 == <<"update1_u32", "update2_u32", "update3_u32", "update4_u32">>
Name_f32 == <<"update1_f32", "update2_f32", "update3_f32", "update4_f32">>
Name_bool == <<"update1_bool", "update2_bool", "update3_bool", "update4_bool">>
Name_slice_i32 == <<"update1_slice_i32", "update2_slice_i32",
                    "update3_slice_i32", "update4_slice_i32">>
Name_slice_u32 == <<"update1_slice_u32", "update2_slice_u32",
                    "update3_slice_u32", "update4_slice_u32">>
Name_slice_f32 == <<"update1_slice_f32", "update2_slice_f32",
                    "update3_slice_f32", "update4_slice_f32">>
Name_slice_bool == <<"update1_slice_bool", "update2_slice_bool",
                     "update3_slice_bool", "update4_slice_bool">>
Name_matrix == <<"", "update22_f32", "update33_f32", "update44_f32">>
Name_matrix_slice == <<"", "update22_slice_f32", "update33_slice_f32", "update44_slice_f32">>

\* an update acts on whatever program is current when the driver is called
Step(op, arg, cs) ==
  /\ calls' = cs
  /\ last' = [op |-> op, arg |-> arg, bracket |-> Bracket, current |-> current]
  /\ UNCHANGED <<live, reflect, current, stack>>

Scalar(fn, u, x) == [fn |-> fn, location |-> u, v0 |-> x]
Vector(fn, u, count, data) == [fn |-> fn, location |-> u, count |-> count, data |-> data]
Matrix(fn, u, count, data) ==
  [fn |-> fn, location |-> u, count |-> count, transpose |-> FALSE, data |-> data]

\* what lies at &v for an array v
Fixed(v) == [repeat |-> FALSE, words |-> v, len |-> UsizeOf(1)]

update1_i32 ==
  \E u \in Locations, x \in I32Values :
    Step("update1_i32", x, <<Scalar("Uniform1i", u, x)>>)

\* update2_i32, update3_i32, update4_i32
updateN_i32 ==
  \E n \in 2..4 : \E u \in Locations, v \in Sample(I32Values, n) :
    Step(Name_i32[n], v, <<Vector(Uniformiv[n], u, 1, Fixed(v))>>)

\* update1_slice_i32 .. update4_slice_i32
updateN_slice_i32 ==
  \E n \in 1..4 : \E u \in Locations, v \in Slices(Sample(I32Values, n)) :
    Step(Name_slice_i32[n], v, <<Vector(Uniformiv[n], u, AsGLint(v.len), Memory(v, n))>>)

update1_u32 ==
  \E u \in Locations, x \in U32Values :
    Step("update1_u32", x, <<Scalar("Uniform1ui", u, x)>>)

\* update2_u32, update3_u32, update4_u32
updateN_u32 ==
  \E n \in 2..4 : \E u \in Locations, v \in Sample(U32Values, n) :
    Step(Name_u32[n], v, <<Vector(Uniformuiv[n], u, 1, Fixed(v))>>)

\* update1_slice_u32 .. update4_slice_u32
updateN_slice_u32 ==
  \E n \in 1..4 : \E u \in Locations, v \in Slices(Sample(U32Values, n)) :
    Step(Name_slice_u32[n], v, <<Vector(Uniformuiv[n], u, AsGLint(v.len), Memory(v, n))>>)

update1_f32 ==
  \E u \in Locations, x \in F32Values :
    Step("update1_f32", x, <<Scalar("Uniform1f", u, x)>>)

\* update2_f32, update3_f32, update4_f32
updateN_f32 ==
  \E n \in 2..4 : \E u \in Locations, v \in Sample(F32Values, n) :
    Step(Name_f32[n], v, <<Vector(Uniformfv[n], u, 1, Fixed(v))>>)

\* update1_slice_f32 .. update4_slice_f32
updateN_slice_f32 ==
  \E n \in 1..4 : \E u \in Locations, v \in Slices(Sample(F32Values, n)) :
    Step(Name_slice_f32[n], v, <<Vector(Uniformfv[n], u, AsGLint(v.len), Memory(v, n))>>)

\* the call update22_slice_f32, update33_slice_f32, update44_slice_f32 make
MatrixSliceCall(n, u, v) ==
  Matrix(UniformMatrixfv[n], u, AsGLint(v.len),
         Memory(Collect([m \in M(n) |-> RowMajor(m)], v), n * n))

\* update22_f32, update33_f32, update44_f32: the slice path on &[m]
updateNN_f32 ==
  \E n \in 2..4 : \E u \in Locations, m \in M(n) :
    Step(Name_matrix[n], m,
         <<MatrixSliceCall(n, u, [repeat |-> FALSE, elems |-> <<m>>, len |-> UsizeOf(1)])>>)

\* update22_slice_f32, update33_slice_f32, update44_slice_f32
updateNN_slice_f32 ==
  \E n \in 2..4 : \E u \in Locations, v \in Slices(M(n)) :
    Step(Name_matrix_slice[n], v, <<MatrixSliceCall(n, u, v)>>)

update1_bool ==
  \E u \in Locations, x \in BOOLEAN :
    Step("update1_bool", x, <<Scalar("Uniform1i", u, BoolAsI32(x))>>)

\* update2_bool, update3_bool, update4_bool
updateN_bool ==
  \E n \in 2..4 : \E u \in Locations, v \in Array(BOOLEAN, n) :
    LET w == [i \in 1..n |-> BoolAsI32(v[i])]
    IN  Step(Name_bool[n], v, <<Vector(Uniformiv[n], u, 1, Fixed(w))>>)

update1_slice_bool ==
  \E u \in Locations, v \in Slices(BOOLEAN) :
    LET w == Collect([x \in BOOLEAN |-> BoolAsI32(x)], v)
    IN  Step("update1_slice_bool", v,
             <<Vector("Uniform1iv", u, AsGLint(w.len), Memory(w, 1))>>)

\* update2_slice_bool, update3_slice_bool, update4_slice_bool
updateN_slice_bool ==
  \E n \in 2..4 : \E u \in Locations, v \in Slices(Array(BOOLEAN, n)) :
    LET each == [x \in Array(BOOLEAN, n) |-> [i \in 1..n |-> BoolAsI32(x[i])]]
        w == Collect(each, v)
    IN  Step(Name_slice_bool[n], v,
             <<Vector(Uniformiv[n], u, AsGLint(w.len), Memory(w, n))>>)

update_texture_unit ==
  \E u \in Locations, unit \in U32Values :
    Step("update_texture_unit", unit, <<Scalar("Uniform1i", u, AsGLint(unit))>>)

(***************************************************************************)
(* map_uniform and uniform_type_match                                      *)
(***************************************************************************)
MaxSize == 2       \* largest active-uniform size (array length) reported
MaxTail == 1       \* bytes lying between the end of a name and the next NUL

Types == {"Integral", "Unsigned", "Floating", "Boolean"}
Dims == {"Dim1", "Dim2", "Dim3", "Dim4", "Dim22", "Dim33", "Dim44"}

\* the driver's type enums
GL_INT == 5124
GL_UNSIGNED_INT == 5125
GL_FLOAT == 5126
GL_FLOAT_VEC2 == 35664
GL_FLOAT_VEC3 == 35665
GL_FLOAT_VEC4 == 35666
GL_INT_VEC2 == 35667
GL_INT_VEC3 == 35668
GL_INT_VEC4 == 35669
GL_BOOL == 35670
GL_BOOL_VEC2 == 35671
GL_BOOL_VEC3 == 35672
GL_BOOL_VEC4 == 35673
GL_FLOAT_MAT2 == 35674
GL_FLOAT_MAT3 == 35675
GL_FLOAT_MAT4 == 35676
GL_UNSIGNED_INT_VEC2 == 36294
GL_UNSIGNED_INT_VEC3 == 36295
GL_UNSIGNED_INT_VEC4 == 36296

\* the index the driver stores for a name that is no active uniform
\* (0xFFFFFFFF, written here as the same 32 bits read as a signed value)
GL_INVALID_INDEX == -1

DriverTypes ==
  {GL_INT, GL_INT_VEC2, GL_INT_VEC3, GL_INT_VEC4,
   GL_UNSIGNED_INT, GL_UNSIGNED_INT_VEC2, GL_UNSIGNED_INT_VEC3, GL_UNSIGNED_INT_VEC4,
   GL_FLOAT, GL_FLOAT_VEC2, GL_FLOAT_VEC3, GL_FLOAT_VEC4,
   GL_FLOAT_MAT2, GL_FLOAT_MAT3, GL_FLOAT_MAT4,
   GL_BOOL, GL_BOOL_VEC2, GL_BOOL_VEC3, GL_BOOL_VEC4}

\* names a caller asks for: "a", "ab", "b", and "a\0"
QueryNames == {<<97>>, <<97, 98>>, <<98>>, <<97, 0>>}

\* bytes found behind a name in memory: 'b'
TailBytes == {98}
Tails == SeqsUpTo(TailBytes, MaxTail)

\* the active-uniform tables a link can produce: uniform "a" of any size and
\* type, uniform "ab" of a few, either or both or none
Uniform(name, size, typ) == [name |-> name, size |-> size, typ |-> typ]

Tables ==
  LET as == {<<Uniform(<<97>>, sz, t)>> : sz \in 1..MaxSize, t \in DriverTypes}
      abs == {<<Uniform(<<97, 98>>, 1, GL_FLOAT)>>, <<Uniform(<<97, 98>>, MaxSize, GL_INT)>>}
  IN  {<<>>} \cup as \cup abs \cup {x \o y : x \in as, y \in abs}

\* the active-uniform table the driver consults for a program name
ProgramTable(program) == IF program \in live THEN reflect[program] ELSE NoUniforms

\* locations are handed out in table order, one per array element
RECURSIVE LocationAt(_, _)
LocationAt(table, i) == IF i = 1 THEN 0 ELSE LocationAt(table, i - 1) + table[i - 1].size

Lookup(table, bytes) == {i \in DOMAIN table : table[i].name = bytes}

GetUniformLocation(table, c_name) ==
  IF Lookup(table, c_name) = {} THEN -1
  ELSE LocationAt(table, CHOOSE i \in Lookup(table, c_name) : TRUE)

GetUniformIndices(table, c_name) ==
  IF Lookup(table, c_name) = {} THEN GL_INVALID_INDEX
  ELSE (CHOOSE i \in Lookup(table, c_name) : TRUE) - 1

\* an index that is no active uniform is an error: the outputs keep the
\* values they had
GetActiveUniform(table, index, size, typ) ==
  IF index >= 0 /\ index < Len(table)
    THEN [valid |-> TRUE, size |-> table[index + 1].size, typ |-> table[index + 1].typ]
    ELSE [valid |-> FALSE, size |-> size, typ |-> typ]

\* the C string the driver reads at a pointer: the bytes up to the first NUL
RECURSIVE CStr(_)
CStr(bytes) == IF bytes = <<>> \/ Head(bytes) = 0 THEN <<>> ELSE <<Head(bytes)>> \o CStr(Tail(bytes))

Range(f) == {f[i] : i \in DOMAIN f}

Inactive(name) == [warning |-> "Inactive", name |-> name]
TypeMismatch(err) == [warning |-> "TypeMismatch", err |-> err]

\* the match with a copied arm left unedited: Integral Dim3 compares against
\* INT_VEC2, Boolean Dim2 against BOOL
TypeMatchArms_slip(ty, dim, typ) ==
  LET arms == [Integral |-> [Dim1 |-> <<GL_INT, "int">>, Dim2 |-> <<GL_INT_VEC2, "ivec2">>,
                             Dim3 |-> <<GL_INT_VEC2, "ivec3">>, Dim4 |-> <<GL_INT_VEC4, "ivec4">>],
               Unsigned |-> [Dim1 |-> <<GL_UNSIGNED_INT, "uint">>,
                             Dim2 |-> <<GL_UNSIGNED_INT_VEC2, "uvec2">>,
                             Dim3 |-> <<GL_UNSIGNED_INT_VEC3, "uvec3">>,
                             Dim4 |-> <<GL_UNSIGNED_INT_VEC4, "uvec4">>],
               Floating |-> [Dim1 |-> <<GL_FLOAT, "float">>, Dim2 |-> <<GL_FLOAT_VEC2, "vec2">>,
                             Dim3 |-> <<GL_FLOAT_VEC3, "vec3">>, Dim4 |-> <<GL_FLOAT_VEC4, "vec4">>,
                             Dim22 |-> <<GL_FLOAT_MAT2, "mat2">>,
                             Dim33 |-> <<GL_FLOAT_MAT3, "mat3">>,
                             Dim44 |-> <<GL_FLOAT_MAT4, "mat4">>],
               Boolean |-> [Dim1 |-> <<GL_BOOL, "bool">>, Dim2 |-> <<GL_BOOL, "bvec2">>,
                            Dim3 |-> <<GL_BOOL_VEC3, "bvec3">>, Dim4 |-> <<GL_BOOL_VEC4, "bvec4">>]]
  IN  IF dim \in DOMAIN arms[ty] /\ typ # arms[ty][dim][1]
        THEN Some(arms[ty][dim][2])
        ELSE None

\* lines 101-122
TypeMatchArms(ty, dim, typ) ==
  CASE ty = "Integral" /\ dim = "Dim1" /\ typ # GL_INT -> Some("requested int doesn't match")
    [] ty = "Integral" /\ dim = "Dim2" /\ typ # GL_INT_VEC2 -> Some("requested ivec2 doesn't match")
    [] ty = "Integral" /\ dim = "Dim3" /\ typ # GL_INT_VEC3 -> Some("requested ivec3 doesn't match")
    [] ty = "Integral" /\ dim = "Dim4" /\ typ # GL_INT_VEC4 -> Some("requested ivec4 doesn't match")
    [] ty = "Unsigned" /\ dim = "Dim1" /\ typ # GL_UNSIGNED_INT -> Some("requested uint doesn't match")
    [] ty = "Unsigned" /\ dim = "Dim2" /\ typ # GL_UNSIGNED_INT_VEC2 -> Some("requested uvec2 doesn't match")
    [] ty = "Unsigned" /\ dim = "Dim3" /\ typ # GL_UNSIGNED_INT_VEC3 -> Some("requested uvec3 doesn't match")
    [] ty = "Unsigned" /\ dim = "Dim4" /\ typ # GL_UNSIGNED_INT_VEC4 -> Some("requested uvec4 doesn't match")
    [] ty = "Floating" /\ dim = "Dim1" /\ typ # GL_FLOAT -> Some("requested float doesn't match")
    [] ty = "Floating" /\ dim = "Dim2" /\ typ # GL_FLOAT_VEC2 -> Some("requested vec2 doesn't match")
    [] ty = "Floating" /\ dim = "Dim3" /\ typ # GL_FLOAT_VEC3 -> Some("requested vec3 doesn't match")
    [] ty = "Floating" /\ dim = "Dim4" /\ typ # GL_FLOAT_VEC4 -> Some("requested vec4 doesn't match")
    [] ty = "Floating" /\ dim = "Dim22" /\ typ # GL_FLOAT_MAT2 -> Some("requested mat2 doesn't match")
    [] ty = "Floating" /\ dim = "Dim33" /\ typ # GL_FLOAT_MAT3 -> Some("requested mat3 doesn't match")
    [] ty = "Floating" /\ dim = "Dim44" /\ typ # GL_FLOAT_MAT4 -> Some("requested mat4 doesn't match")
    [] ty = "Boolean" /\ dim = "Dim1" /\ typ # GL_BOOL -> Some("requested bool doesn't match")
    [] ty = "Boolean" /\ dim = "Dim2" /\ typ # GL_BOOL_VEC2 -> Some("requested bvec2 doesn't match")
    [] ty = "Boolean" /\ dim = "Dim3" /\ typ # GL_BOOL_VEC3 -> Some("requested bvec3 doesn't match")
    [] ty = "Boolean" /\ dim = "Dim4" /\ typ # GL_BOOL_VEC4 -> Some("requested bvec4 doesn't match")
    [] OTHER -> None

\* uniform_type_match without the early return for arrays
uniform_type_match_arrays(table, name, tail, ty, dim) ==
  LET seen == CStr(name \o tail \o <<0>>)
      index == GetUniformIndices(table, seen)
      active == GetActiveUniform(table, index, 0, 0)
  IN  [calls |-> <<[fn |-> "GetUniformIndices", name |-> seen, out |-> index],
                   [fn |-> "GetActiveUniform", index |-> index, valid |-> active.valid,
                    size |-> active.size, typ |-> active.typ]>>,
       ret |-> TypeMatchArms(ty, dim, active.typ)]

\* lines 83-123.  The driver is handed name.as_ptr(), the bytes of a &str,
\* which no NUL terminates: it reads the name and then whatever bytes (tail)
\* lie behind it in memory up to the next NUL.
uniform_type_match(table, name, tail, ty, dim) ==
  LET seen == CStr(name \o tail \o <<0>>)
      index == GetUniformIndices(table, seen)
      active == GetActiveUniform(table, index, 0, 0)
  IN  [calls |-> <<[fn |-> "GetUniformIndices", name |-> seen, out |-> index],
                   [fn |-> "GetActiveUniform", index |-> index, valid |-> active.valid,
                    size |-> active.size, typ |-> active.typ]>>,
       ret |-> IF active.size # 1 THEN None ELSE TypeMatchArms(ty, dim, active.typ)]

Value(v) == [kind |-> "value", val |-> v]

\* map_uniform without the early return for an inactive uniform
MapUniform_noreturn(table, name, tail, ty, dim) ==
  IF 0 \in Range(name) THEN [calls |-> <<>>, ret |-> Panic]
  ELSE LET location == GetUniformLocation(table, name)
           lookup == <<[fn |-> "GetUniformLocation", name |-> name, out |-> location]>>
           match == uniform_type_match(table, name, tail, ty, dim)
       IN  IF match.ret # None
             THEN [calls |-> lookup \o match.calls,
                   ret |-> Value(<<location, Some(TypeMismatch(match.ret[1]))>>)]
             ELSE [calls |-> lookup \o match.calls,
                   ret |-> Value(<<location, None>>)]

\* lines 60-73; CString::new panics on a name with a NUL inside
MapUniform(table, name, tail, ty, dim) ==
  IF 0 \in Range(name) THEN [calls |-> <<>>, ret |-> Panic]
  ELSE LET location == GetUniformLocation(table, name)
           lookup == <<[fn |-> "GetUniformLocation", name |-> name, out |-> location]>>
           match == uniform_type_match(table, name, tail, ty, dim)
       IN  IF location = -1
             THEN [calls |-> lookup, ret |-> Value(<<-1, Some(Inactive(name))>>)]
           ELSE IF match.ret # None
             THEN [calls |-> lookup \o match.calls,
                   ret |-> Value(<<location, Some(TypeMismatch(match.ret[1]))>>)]
           ELSE [calls |-> lookup \o match.calls,
                 ret |-> Value(<<location, None>>)]

\* One run resolves one uniform, any number of times: map_uniform changes
\* nothing a later call reads, so a call's outcome does not depend on the
\* calls before it.
map_uniform ==
  \E program \in ProgramNames, name \in QueryNames, ty \in Types, dim \in Dims,
     tail \in Tails :
    LET r == MapUniform(ProgramTable(program), name, tail, ty, dim)
    IN  /\ last.op = "map_uniform" => last.args = <<program, name, ty, dim>>
        /\ calls' = r.calls
        /\ last' = [op |-> "map_uniform", args |-> <<program, name, ty, dim>>, ret |-> r.ret]
        /\ UNCHANGED <<live, reflect, current, stack>>

(***************************************************************************)
(* Specifications                                                          *)
(***************************************************************************)
\* program objects: creation by linking, and deletion
Init ==
  /\ live = {}
  /\ reflect = <<>>
  /\ current = 0
  /\ stack = <<>>
  /\ calls = <<>>
  /\ last = [op |-> "init"]

Next ==
  \/ new_program
  \/ free_program

Spec == Init /\ [][Next]_vars

\* the update bracket, over any set of linked programs
InitBracket ==
  /\ live \in SUBSET ProgramNames
  /\ reflect = [p \in live |-> NoUniforms]
  /\ current = 0
  /\ stack = <<>>
  /\ calls = <<>>
  /\ last = [op |-> "init"]

NextBracket ==
  \/ update_uniforms_enter
  \/ update_uniforms_return
  \/ update_uniforms_unwind
  \/ update1_i32
  \/ free_program

SpecBracket == InitBracket /\ [][NextBracket]_vars

\* uniform resolution on a linked program, over every active-uniform table
InitUniform ==
  /\ live = {1}
  /\ reflect \in [live -> Tables]
  /\ current = 0
  /\ stack = <<>>
  /\ calls = <<>>
  /\ last = [op |-> "init"]

NextUniform == map_uniform

SpecUniform == InitUniform /\ [][NextUniform]_vars

\* the update operations, called in the callback of a bracket.  They keep no
\* state of their own, so one update per run reaches every driver call.
InitUpdate ==
  /\ live = {1}
  /\ reflect = [p \in live |-> NoUniforms]
  /\ current = 1
  /\ stack = <<[program |-> 1, entry |-> 0]>>
  /\ calls = <<>>
  /\ last = [op |-> "init"]

Fresh == last.op = "init"

NextUpdate ==
  \/ Fresh /\ update1_i32
  \/ Fresh /\ updateN_i32
  \/ Fresh /\ updateN_slice_i32
  \/ Fresh /\ update1_u32
  \/ Fresh /\ updateN_u32
  \/ Fresh /\ updateN_slice_u32
  \/ Fresh /\ update1_f32
  \/ Fresh /\ updateN_f32
  \/ Fresh /\ updateN_slice_f32
  \/ Fresh /\ updateNN_f32
  \/ Fresh /\ updateNN_slice_f32
  \/ Fresh /\ update1_bool
  \/ Fresh /\ updateN_bool
  \/ Fresh /\ update1_slice_bool
  \/ Fresh /\ updateN_slice_bool
  \/ Fresh /\ update_texture_unit

SpecUpdate == InitUpdate /\ [][NextUpdate]_vars

(***************************************************************************)
(* Properties of new_program                                               *)
(***************************************************************************)
\* what the call log of a new_program step shows
LinkStatus(cs) ==
  LET i == CHOOSE j \in DOMAIN cs : cs[j].fn = "GetProgramiv" /\ cs[j].pname = "LINK_STATUS"
  IN  cs[i].out

DriverLog(cs) ==
  LET i == CHOOSE j \in DOMAIN cs : cs[j].fn = "GetProgramInfoLog"
  IN  cs[i].out

IsAttach(c) == c.fn = "AttachShader"

\* C1 as stated: a failed link deletes the created program object and the
\* result is Err(LinkFailed(log)) with the driver's log; a successful link
\* returns Ok(handle) and the object stays live.
C1_AsStated ==
  last.op = "new_program" =>
    \A p \in Created(calls) :
      IF LinkStatus(calls)
        THEN last.ret = Ok(p) /\ p \in live /\ p \notin Deleted(calls)
        ELSE /\ p \in Deleted(calls)
             /\ p \notin live
             /\ last.ret = Err(LinkFailed(DriverLog(calls)))

\* C1 amended: a failed link deletes the created program object and returns
\* no handle; the result is Err(LinkFailed(log)) with the bytes the driver
\* wrote when they are well-formed UTF-8, and the call panics (after the
\* deletion) when they are not; a successful link returns Ok(handle) and
\* the object stays live.
C1_LinkResult ==
  last.op = "new_program" =>
    \A p \in Created(calls) :
      IF LinkStatus(calls)
        THEN last.ret = Ok(p) /\ p \in live /\ p \notin Deleted(calls)
        ELSE /\ p \in Deleted(calls)
             /\ p \notin live
             /\ last.ret.kind # "Ok"
             /\ (Utf8Valid(DriverLog(calls))
                   => last.ret = Err(LinkFailed(DriverLog(calls))))
             /\ (~Utf8Valid(DriverLog(calls)) => last.ret = Panic)

C1_Witness ==
  /\ last.op = "new_program"
  /\ ~LinkStatus(calls)
  /\ last.ret.kind = "Err"
  /\ Len(last.ret.val.log) > 1
  /\ last.program \in Deleted(calls)
  /\ last.program \notin live

\* C9: new_program calls the driver in the order create; attach
\* tessellation control and evaluation (only when the pair is supplied);
\* attach vertex; attach geometry (only when supplied); attach fragment;
\* link; query the link status.
C9_CallOrder ==
  last.op = "new_program" =>
    LET tess == last.args[1]
        vertex == last.args[2]
        geometry == last.args[3]
        fragment == last.args[4]
        stages == (IF tess = None THEN <<>> ELSE <<tess[1][1], tess[1][2]>>)
                  \o <<vertex>>
                  \o (IF geometry = None THEN <<>> ELSE <<geometry[1]>>)
                  \o <<fragment>>
        n == Len(stages)
    IN  /\ Len(calls) >= n + 3
        /\ calls[1].fn = "CreateProgram"
        /\ \A i \in 1..n : /\ IsAttach(calls[i + 1])
                            /\ calls[i + 1].stage = stages[i]
                            /\ calls[i + 1].program = calls[1].program
        /\ calls[n + 2].fn = "LinkProgram"
        /\ calls[n + 3].fn = "GetProgramiv" /\ calls[n + 3].pname = "LINK_STATUS"
        /\ Len(SelectSeq(calls, IsAttach)) = n

C9_Witness ==
  /\ last.op = "new_program"
  /\ last.args[1] # None
  /\ last.args[3] # None
  /\ Len(SelectSeq(calls, IsAttach)) = 5
  /\ LinkStatus(calls)

(***************************************************************************)
(* Properties of update_uniforms                                           *)
(***************************************************************************)
\* C2: whenever control has just left update_uniforms, by the callback
\* returning or by its panic unwinding, the current-program slot is 0.
C2_SlotClearedOnEveryExit ==
  (last.op = "update_uniforms" /\ last.step \in {"return", "unwind"})
    => current = 0

\* C6: when update_uniforms has just returned, the current-program slot holds
\* the value it held on entry; and an update issued inside the callback of a
\* bracket on a program object finds that program current.
C6_PreviousRestored ==
  /\ (last.op = "update_uniforms" /\ last.step = "return")
       => current = last.entry
  /\ (last.op = "update1_i32" /\ last.bracket \in live)
       => last.current = last.bracket

(***************************************************************************)
(* Properties of map_uniform                                               *)
(***************************************************************************)
\* the enum the fixed table assigns to a declared (Type, Dim)
TableEnum ==
  [Integral |-> [Dim1 |-> GL_INT, Dim2 |-> GL_INT_VEC2,
                 Dim3 |-> GL_INT_VEC3, Dim4 |-> GL_INT_VEC4],
   Unsigned |-> [Dim1 |-> GL_UNSIGNED_INT, Dim2 |-> GL_UNSIGNED_INT_VEC2,
                 Dim3 |-> GL_UNSIGNED_INT_VEC3, Dim4 |-> GL_UNSIGNED_INT_VEC4],
   Floating |-> [Dim1 |-> GL_FLOAT, Dim2 |-> GL_FLOAT_VEC2,
                 Dim3 |-> GL_FLOAT_VEC3, Dim4 |-> GL_FLOAT_VEC4,
                 Dim22 |-> GL_FLOAT_MAT2, Dim33 |-> GL_FLOAT_MAT3,
                 Dim44 |-> GL_FLOAT_MAT4],
   Boolean |-> [Dim1 |-> GL_BOOL, Dim2 |-> GL_BOOL_VEC2,
                Dim3 |-> GL_BOOL_VEC3, Dim4 |-> GL_BOOL_VEC4]]

InTable(ty, dim) == dim \in DOMAIN TableEnum[ty]

\* what the call log of a map_uniform step shows
LocationReported(cs) ==
  LET i == CHOOSE j \in DOMAIN cs : cs[j].fn = "GetUniformLocation"
  IN  cs[i].out

Reflected(cs) == {cs[j] : j \in {k \in DOMAIN cs : cs[k].fn = "GetActiveUniform"}}
Reflection(cs) == {cs[j] : j \in {k \in DOMAIN cs :
                                   cs[k].fn \in {"GetUniformIndices", "GetActiveUniform"}}}

Returned == last.op = "map_uniform" /\ last.ret.kind = "value"
Handle == last.ret.val[1]
Warning == last.ret.val[2]
IsMismatch(w) == w # None /\ w[1].warning = "TypeMismatch"

C4_Inactive ==
  (last.op = "map_uniform" /\ calls # <<>> /\ LocationReported(calls) = -1)
    => /\ last.ret = Value(<<-1, Some(Inactive(last.args[2]))>>)
       /\ Reflection(calls) = {}

C4_Witness ==
  /\ Returned
  /\ LocationReported(calls) = -1
  /\ Handle = -1
  /\ Warning = Some(Inactive(<<98>>))
  /\ last.args[1] \in live
  /\ reflect[last.args[1]] # NoUniforms

C8_Idempotent ==
  [][(/\ last.op = "map_uniform"
      /\ last'.op = "map_uniform"
      /\ last'.args = last.args)
     => /\ last'.ret = last.ret
        /\ UNCHANGED <<live, reflect, current>>]_vars

(***************************************************************************)
(* Properties of the update operations                                     *)
(***************************************************************************)
ArityIn(names, op) == CHOOSE n \in 1..4 : names[n] = op

\* component j of element i of a slice of arity n
Component(elems, n, i, j) == IF n = 1 THEN elems[i] ELSE elems[i][j]

IsBit(x, b) == x \in {0, 1} /\ (x = 1 <=> b)

SliceOps ==
  Range(Name_slice_i32) \cup Range(Name_slice_u32) \cup Range(Name_slice_f32)
  \cup Range(Name_slice_bool) \cup (Range(Name_matrix_slice) \ {""})

\* a signed 32-bit count that is the 64-bit length
CountIsLen(count, len) ==
  /\ len[3] = 0 /\ len[4] = 0
  /\ len[2] < 2^15
  /\ count = len[2] * 2^16 + len[1]

\* C10: every slice update passes the driver a count equal to the number of
\* elements of the slice, whatever its length; a single-matrix update passes
\* count 1.
C10_CountIsLength ==
  /\ last.op \in SliceOps => CountIsLen(calls[1].count, last.arg.len)
  /\ last.op \in Range(Name_matrix) \ {""} => calls[1].count = 1

====
